---- MODULE Spec2Model ----
(***************************************************************************)
(* Model of the quant_analysis core: DataStore (src/storage.py) and        *)
(* AlertSystem (src/alerts.py).                                            *)
(*                                                                         *)
(* A pandas DataFrame is a sequence of rows in positional order.  Time is  *)
(* counted in units of 100 ms, so that the '1s' rule is 10 units.          *)
(* The retention constants of the source (10000/5000 ticks, 2000/1000      *)
(* bars) are divided by TickScale / BarScale to keep the buffers small.    *)
(***************************************************************************)
EXTENDS Integers, Sequences, FiniteSets, TLC

----------------------------------------------------------------------------
(* Bounds of the model *)

TickScale == 3333
BarScale == 666
MaxAdds == 4
MaxFaultAdds == 3
MaxAlerts == 2
MaxChecks == 1
MaxHistoryAlerts == 1
MaxHistoryChecks == 2
MaxSeriesLen == 4
MaxThreadAdds == 2
PointScale == 3

----------------------------------------------------------------------------
(* Program constants *)

TICK_HIGH_WATER == 10000 \div TickScale
TICK_LOW_WATER == 5000 \div TickScale
BAR_HIGH_WATER == 2000 \div BarScale
BAR_LOW_WATER == 1000 \div BarScale

UnitsPerSecond == 10

\* the least number of points of perform_adf_test
ADF_MIN_POINTS == 10 \div PointScale

Timeframes == <<"1s", "1min", "5min">>
TimeframeKeys == {Timeframes[i] : i \in 1..Len(Timeframes)}

BucketDuration(tf) ==
    CASE tf = "1s" -> UnitsPerSecond
      [] tf = "1min" -> 60 * UnitsPerSecond
      [] tf = "5min" -> 300 * UnitsPerSecond

\* the symbols of the application, in the order groupby sorts them
Symbols == <<"BTCUSDT", "ETHUSDT">>
SymbolSet == {Symbols[i] : i \in 1..Len(Symbols)}

\* Python's None for an optional argument
None == "None"

\* the not-a-number value pandas gives 'first', 'max', 'min' and 'last' of an
\* empty bucket; prices are positive
NaN == 0 - 1

----------------------------------------------------------------------------
(* Inputs *)

Tick(ts, sym, p, q) == [timestamp |-> ts, symbol |-> sym, price |-> p, quantity |-> q]

TickInputs ==
    { Tick(0, "BTCUSDT", 100, 1),
      Tick(5, "BTCUSDT", 101, 2),
      Tick(9, "BTCUSDT", 99, 1),
      Tick(9, "BTCUSDT", 102, 1),
      Tick(2985, "ETHUSDT", 50, 1),
      Tick(3000, "ETHUSDT", 51, 2) }

SymbolArgs == SymbolSet \cup {None}
TimeframeArgs == TimeframeKeys \cup {"1h", None}
LimitArgs == {1, 2}

----------------------------------------------------------------------------
(* Sequence helpers (positional DataFrame operations) *)

\* DataFrame.tail(n)
TailRows(df, n) ==
    IF Len(df) <= n THEN df ELSE SubSeq(df, Len(df) - n + 1, Len(df))

\* boolean-mask selection df[df['symbol'] == symbol]
RowsOfSymbol(df, sym) == SelectSeq(df, LAMBDA r : r.symbol = sym)

RECURSIVE InsertByTimestamp(_, _)
\* insert row r after every row whose timestamp is <= r.timestamp
InsertByTimestamp(sorted, r) ==
    IF sorted = <<>> THEN <<r>>
    ELSE IF sorted[Len(sorted)].timestamp <= r.timestamp THEN Append(sorted, r)
    ELSE Append(InsertByTimestamp(SubSeq(sorted, 1, Len(sorted) - 1), r),
                sorted[Len(sorted)])

RECURSIVE SortByTimestamp(_)
\* stable sort on the timestamp (argsort mergesort of the resampler,
\* sort_values of get_resampled_data)
SortByTimestamp(df) ==
    IF df = <<>> THEN <<>>
    ELSE InsertByTimestamp(SortByTimestamp(SubSeq(df, 1, Len(df) - 1)), df[Len(df)])

RECURSIVE Concat(_)
\* concatenation of a sequence of sequences
Concat(ss) == IF ss = <<>> THEN <<>> ELSE ss[1] \o Concat(Tail(ss))

RECURSIVE MaxOf(_)
MaxOf(s) ==
    IF Len(s) = 1 THEN s[1]
    ELSE LET m == MaxOf(Tail(s)) IN IF s[1] >= m THEN s[1] ELSE m

RECURSIVE MinOf(_)
MinOf(s) ==
    IF Len(s) = 1 THEN s[1]
    ELSE LET m == MinOf(Tail(s)) IN IF s[1] <= m THEN s[1] ELSE m

RECURSIVE SumOf(_)
SumOf(s) == IF s = <<>> THEN 0 ELSE s[1] + SumOf(Tail(s))

----------------------------------------------------------------------------
(* Aggregation: groupby('symbol')[col].resample(rule) *)

BucketStart(ts, tf) == (ts \div BucketDuration(tf)) * BucketDuration(tf)

\* the bins the resampler lays over one symbol's ticks g (sorted, not empty):
\* every bucket from that of the first tick to that of the last one
Bins(g, tf) ==
    LET lo == BucketStart(g[1].timestamp, tf)
        hi == BucketStart(g[Len(g)].timestamp, tf)
        n == ((hi - lo) \div BucketDuration(tf)) + 1
    IN [k \in 1..n |-> lo + (k - 1) * BucketDuration(tf)]

InBucket(g, b, tf) == SelectSeq(g, LAMBDA r : BucketStart(r.timestamp, tf) = b)

\* grouping that leaves each symbol's ticks in ingestion order
Groups_Unsorted(ticks) ==
    LET present == SelectSeq(Symbols, LAMBDA s : RowsOfSymbol(ticks, s) # <<>>)
    IN [i \in 1..Len(present) |-> RowsOfSymbol(ticks, present[i])]

\* the sorted ticks of each symbol present, symbols in sorted order
Groups(ticks) ==
    LET present == SelectSeq(Symbols, LAMBDA s : RowsOfSymbol(ticks, s) # <<>>)
    IN [i \in 1..Len(present) |-> SortByTimestamp(RowsOfSymbol(ticks, present[i]))]

\* aggregation whose close is 'first' instead of 'last'
PriceBar_CloseIsFirst(g, b, tf) ==
    LET in == InBucket(g, b, tf)
        prices == [i \in 1..Len(in) |-> in[i].price]
    IN [symbol |-> g[1].symbol, timestamp |-> b,
        open |-> IF in = <<>> THEN NaN ELSE prices[1],
        high |-> IF in = <<>> THEN NaN ELSE MaxOf(prices),
        low |-> IF in = <<>> THEN NaN ELSE MinOf(prices),
        close |-> IF in = <<>> THEN NaN ELSE prices[1]]

PriceBar(g, b, tf) ==
    LET in == InBucket(g, b, tf)
        prices == [i \in 1..Len(in) |-> in[i].price]
    IN [symbol |-> g[1].symbol, timestamp |-> b,
        open |-> IF in = <<>> THEN NaN ELSE prices[1],
        high |-> IF in = <<>> THEN NaN ELSE MaxOf(prices),
        low |-> IF in = <<>> THEN NaN ELSE MinOf(prices),
        close |-> IF in = <<>> THEN NaN ELSE prices[Len(prices)]]

PriceResampled(ticks, tf) ==
    LET gs == Groups(ticks)
    IN Concat([i \in 1..Len(gs) |->
                 LET bins == Bins(gs[i], tf)
                 IN [k \in 1..Len(bins) |-> PriceBar(gs[i], bins[k], tf)]])

VolumeRow(g, b, tf) ==
    LET in == InBucket(g, b, tf)
    IN [symbol |-> g[1].symbol, timestamp |-> b,
        quantity |-> SumOf([i \in 1..Len(in) |-> in[i].quantity])]

VolumeResampled(ticks, tf) ==
    LET gs == Groups(ticks)
    IN Concat([i \in 1..Len(gs) |->
                 LET bins == Bins(gs[i], tf)
                 IN [k \in 1..Len(bins) |-> VolumeRow(gs[i], bins[k], tf)]])

\* pd.merge(price_df, volume_df, on=['timestamp', 'symbol']) and the rename
\* of 'quantity' to 'volume': inner join in the order of the left rows
MergeFrames(price_df, volume_df) ==
    Concat([i \in 1..Len(price_df) |->
              LET p == price_df[i]
                  m == SelectSeq(volume_df, LAMBDA v : v.timestamp = p.timestamp
                                                       /\ v.symbol = p.symbol)
              IN [j \in 1..Len(m) |->
                    [timestamp |-> p.timestamp, symbol |-> p.symbol,
                     open |-> p.open, high |-> p.high, low |-> p.low,
                     close |-> p.close, volume |-> m[j].quantity]]])

ResampledDf(ticks, tf) == MergeFrames(PriceResampled(ticks, tf), VolumeResampled(ticks, tf))

\* a merge in which the bar stored first wins
DropDuplicatesKeepFirst(df) ==
    LET keep == {i \in 1..Len(df) :
                   \A j \in 1..(i - 1) :
                      ~(df[j].timestamp = df[i].timestamp /\ df[j].symbol = df[i].symbol)}
        F[i \in 0..Len(df)] ==
            IF i = 0 THEN <<>>
            ELSE IF i \in keep THEN Append(F[i - 1], df[i]) ELSE F[i - 1]
    IN F[Len(df)]

\* combined.drop_duplicates(subset=['timestamp', 'symbol'], keep='last')
DropDuplicatesKeepLast(df) ==
    LET keep == {i \in 1..Len(df) :
                   \A j \in (i + 1)..Len(df) :
                      ~(df[j].timestamp = df[i].timestamp /\ df[j].symbol = df[i].symbol)}
        F[i \in 0..Len(df)] ==
            IF i = 0 THEN <<>>
            ELSE IF i \in keep THEN Append(F[i - 1], df[i]) ELSE F[i - 1]
    IN F[Len(df)]

\* the stored series of one timeframe after the merge and the retention trim
UpdateStored(stored, resampled_df) ==
    LET merged == IF stored = <<>> THEN resampled_df
                  ELSE DropDuplicatesKeepLast(stored \o resampled_df)
    IN IF Len(merged) > BAR_HIGH_WATER THEN TailRows(merged, BAR_LOW_WATER) ELSE merged

----------------------------------------------------------------------------
(* State *)

VARIABLES
    tick_data,        \* DataStore.tick_data: the raw tick buffer
    resampled_data,   \* DataStore.resampled_data: timeframe key -> bars
    last_resample,    \* DataStore.last_resample: key -> set by a pass or not
    lock,             \* DataStore.lock: "free" or "held"
    conn,             \* DataStore.conn: "none" or "open"
    ret,              \* outcome of the last DataStore or QuantAnalytics call
    log,              \* every tick passed to add_tick so far, in call order
    alerts,           \* AlertSystem.alerts: the registry
    alert_history,    \* AlertSystem.alert_history
    alert_lock,       \* AlertSystem.lock
    clock,            \* number of check_alerts calls so far (pd.Timestamp.now())
    alert_ret,        \* outcome of the last AlertSystem call
    pc,               \* thread -> the statement of the DataStore call it is at
    frame,            \* thread -> the arguments and locals of its call
    serial            \* the store the calls give when run one after another
                      \* in the order in which they took the lock

store_vars == <<tick_data, resampled_data, last_resample, lock, conn, ret, log>>
alert_vars == <<alerts, alert_history, alert_lock, clock, alert_ret>>
thread_vars == <<pc, frame, serial>>
vars == <<tick_data, resampled_data, last_resample, lock, conn, ret, log,
          alerts, alert_history, alert_lock, clock, alert_ret, pc, frame, serial>>

EmptyFrames == [tf \in TimeframeKeys |-> <<>>]

Ret(op, arg, outcome, value, logged) ==
    [op |-> op, arg |-> arg, outcome |-> outcome, value |-> value, logged |-> logged]

\* DataStore.__init__ and AlertSystem.__init__
StoreInit ==
    /\ tick_data = <<>>
    /\ resampled_data = EmptyFrames
    /\ last_resample = [tf \in TimeframeKeys |-> FALSE]
    /\ lock = "free"
    /\ conn \in {"none", "open"}
    /\ ret = Ret("init", None, "ok", <<>>, {})
    /\ log = <<>>

AlertInit ==
    /\ alerts = <<>>
    /\ alert_history = <<>>
    /\ alert_lock = "free"
    /\ clock = 0
    /\ alert_ret = Ret("init", None, "ok", <<>>, <<>>)

\* the threads of the application: one ingestion thread for each symbol
\* stream, which adds ticks and resamples, and the dashboard, which reads
IngestThreads == SymbolSet
Threads == IngestThreads \cup {"dashboard"}

NoFrame ==
    [op |-> "none", arg |-> None, ticks |-> <<>>, k |-> 0,
     value |-> <<>>, expect |-> <<>>, outcome |-> "ok"]

ThreadInit ==
    /\ pc = [t \in Threads |-> "idle"]
    /\ frame = [t \in Threads |-> NoFrame]
    /\ serial = [tick_data |-> <<>>, resampled_data |-> EmptyFrames]

Init == StoreInit /\ AlertInit /\ ThreadInit

----------------------------------------------------------------------------
(* DataStore operations *)

\* outcomes of one write to the sqlite sink
SinkFailures == IF conn = "none" THEN {FALSE} ELSE BOOLEAN

\* eviction that keeps the oldest ticks instead of the most recent ones
AppendTick_KeepsOldest(buffer, tick) ==
    LET appended == Append(buffer, tick)
    IN IF Len(appended) > TICK_HIGH_WATER THEN SubSeq(appended, 1, TICK_LOW_WATER)
       ELSE appended

\* the buffer after the append and the eviction
AppendTick(buffer, tick) ==
    LET appended == Append(buffer, tick)
    IN IF Len(appended) > TICK_HIGH_WATER THEN TailRows(appended, TICK_LOW_WATER)
       ELSE appended

\* add_tick(tick): the write to the sink is inside the lock and outside any
\* try, so that its failure leaves add_tick by the exception
add_tick(tick, sink_fails) ==
    /\ lock = "free"
    /\ tick_data' = AppendTick(tick_data, tick)
    /\ log' = Append(log, tick)
    /\ ret' = Ret("add_tick", tick.symbol, IF sink_fails THEN "raised" ELSE "ok", <<>>, {})
    /\ UNCHANGED <<resampled_data, last_resample, lock, conn>>
    /\ UNCHANGED <<alert_vars, thread_vars>>

AddTick ==
    \E tick \in TickInputs, sink_fails \in SinkFailures :
        /\ Len(log) < MaxAdds
        /\ \A i \in 1..Len(log) : log[i] # tick
        /\ add_tick(tick, sink_fails)

\* the ticks a pass works on
Scope(symbol) == IF symbol # None THEN RowsOfSymbol(tick_data, symbol) ELSE tick_data

\* outcomes of the sink writes of one pass: the timeframes whose write raises
PassFailures == IF conn = "none" THEN {{}} ELSE SUBSET TimeframeKeys

\* resample_data(symbol).  The sink write is the last statement of the try
\* of its timeframe: when it raises, the except logs it and the loop goes on
resample_data(symbol) ==
    /\ lock = "free"
    /\ IF Scope(symbol) = <<>>
       THEN /\ ret' = Ret("resample_data", symbol, "ok", EmptyFrames, {})
            /\ UNCHANGED <<resampled_data, last_resample>>
       ELSE \E frames \in {[tf \in TimeframeKeys |-> ResampledDf(Scope(symbol), tf)]} :
               /\ resampled_data' =
                     [tf \in TimeframeKeys |-> UpdateStored(resampled_data[tf], frames[tf])]
               /\ last_resample' = [tf \in TimeframeKeys |-> TRUE]
               /\ \E failing \in PassFailures :
                     ret' = Ret("resample_data", symbol, "ok", frames, failing)
    /\ UNCHANGED <<tick_data, log, lock, conn>>
    /\ UNCHANGED <<alert_vars, thread_vars>>

ResampleData == \E symbol \in SymbolArgs : resample_data(symbol)

\* get_latest_ticks(symbol, limit)
get_latest_ticks(symbol, limit) ==
    /\ lock = "free"
    /\ ret' = Ret("get_latest_ticks", symbol, "ok", TailRows(Scope(symbol), limit), {})
    /\ UNCHANGED <<tick_data, resampled_data, last_resample, lock, conn, log>>
    /\ UNCHANGED <<alert_vars, thread_vars>>

GetLatestTicks == \E symbol \in SymbolArgs, limit \in LimitArgs : get_latest_ticks(symbol, limit)

\* a query that returns the bars in stored order, without sort_values
ResampledView_Unsorted(timeframe, symbol) ==
    LET data == resampled_data[timeframe]
    IN IF symbol # None /\ data # <<>> THEN RowsOfSymbol(data, symbol) ELSE data

\* the value get_resampled_data returns for a configured timeframe
ResampledView(timeframe, symbol) ==
    LET data == resampled_data[timeframe]
        filtered == IF symbol # None /\ data # <<>> THEN RowsOfSymbol(data, symbol) ELSE data
    IN IF filtered = <<>> THEN <<>> ELSE SortByTimestamp(filtered)

\* a query that answers an unknown timeframe with an empty result
get_resampled_data_NoKeyTest(timeframe, symbol) ==
    /\ lock = "free"
    /\ ret' = Ret("get_resampled_data", <<timeframe, symbol>>, "ok",
                  IF timeframe \in DOMAIN resampled_data
                  THEN ResampledView(timeframe, symbol) ELSE <<>>, {})
    /\ UNCHANGED <<tick_data, resampled_data, last_resample, lock, conn, log>>
    /\ UNCHANGED <<alert_vars, thread_vars>>

\* get_resampled_data(timeframe, symbol): the key test comes before the lock
get_resampled_data(timeframe, symbol) ==
    /\ IF timeframe \notin DOMAIN resampled_data
       THEN ret' = Ret("get_resampled_data", <<timeframe, symbol>>, "ValueError", <<>>, {})
       ELSE /\ lock = "free"
            /\ ret' = Ret("get_resampled_data", <<timeframe, symbol>>, "ok",
                          ResampledView(timeframe, symbol), {})
    /\ UNCHANGED <<tick_data, resampled_data, last_resample, lock, conn, log>>
    /\ UNCHANGED <<alert_vars, thread_vars>>

GetResampledData ==
    \E timeframe \in TimeframeArgs, symbol \in SymbolArgs : get_resampled_data(timeframe, symbol)

\* save_to_csv(filepath, timeframe): with a timeframe it calls
\* get_resampled_data while holding the lock, which is not reentrant
save_to_csv(timeframe) ==
    /\ lock = "free"
    /\ IF timeframe = None
       THEN /\ ret' = Ret("save_to_csv", timeframe, "ok", tick_data, {})
            /\ lock' = lock
       ELSE IF timeframe \notin DOMAIN resampled_data
       THEN /\ ret' = Ret("save_to_csv", timeframe, "ValueError", <<>>, {})
            /\ lock' = lock
       ELSE /\ ret' = Ret("save_to_csv", timeframe, "blocked", <<>>, {})
            /\ lock' = "held"
    /\ UNCHANGED <<tick_data, resampled_data, last_resample, conn, log>>
    /\ UNCHANGED <<alert_vars, thread_vars>>

SaveToCsv == \E timeframe \in TimeframeArgs : save_to_csv(timeframe)

Next ==
    \/ AddTick
    \/ ResampleData

\* ingestion and resampling, with or without the sink
Spec == Init /\ [][Next]_vars

\* the statement of a timeframe's try block that raises: the aggregation,
\* the merge into the stored series, the retention trim, the sink write
FaultStages == {"none", "aggregate", "merge", "trim", "sink"}

\* the failure of one pass: none, or one timeframe that fails at one stage;
\* the sink write is only reached with a connection
PassFaults ==
    {[tf \in TimeframeKeys |-> IF tf = failing THEN stage ELSE "none"] :
        failing \in TimeframeKeys,
        stage \in (IF conn = "none" THEN FaultStages \ {"sink"} ELSE FaultStages)}

\* the stored series after the merge, before the trim
MergeStored(stored, resampled_df) ==
    IF stored = <<>> THEN resampled_df
    ELSE DropDuplicatesKeepLast(stored \o resampled_df)

\* the stored series of one timeframe when its try block is left at each
\* stage: nothing is assigned before the merge has been computed, the trim
\* assigns only after tail() has returned, the sink write comes after both
StoredAfter(stored, resampled_df) ==
    LET merged == MergeStored(stored, resampled_df)
        trimmed == IF Len(merged) > BAR_HIGH_WATER THEN TailRows(merged, BAR_LOW_WATER)
                   ELSE merged
    IN [stage \in FaultStages |->
          CASE stage \in {"aggregate", "merge"} -> stored
            [] stage = "trim" -> merged
            [] OTHER -> trimmed]

\* a loop that the first failure ends
RunTimeframes_AbortOnFailure(stored, after, faults) ==
    [tf \in TimeframeKeys |->
        IF \E i, j \in 1..Len(Timeframes) :
              i < j /\ Timeframes[j] = tf /\ faults[Timeframes[i]] # "none"
        THEN stored[tf]
        ELSE after[tf][faults[tf]]]

\* the for loop over resample_rules: the try is inside the loop, so that each
\* timeframe is processed whatever happened to the others; after[tf][stage]
\* is the stored series of tf when its try block is left at stage
RunTimeframes(stored, after, faults) ==
    [tf \in TimeframeKeys |-> after[tf][faults[tf]]]

\* resample_data(symbol) with an exception raised at any statement of any
\* timeframe's try block; the except prints the timeframe and the pass goes on
resample_data_with_faults(symbol) ==
    /\ lock = "free"
    /\ IF Scope(symbol) = <<>>
       THEN /\ ret' = Ret("resample_data", symbol, "ok", EmptyFrames, {})
            /\ UNCHANGED <<resampled_data, last_resample>>
       ELSE \E frames \in {[tf \in TimeframeKeys |-> ResampledDf(Scope(symbol), tf)]} :
               \E after \in {[tf \in TimeframeKeys |->
                                StoredAfter(resampled_data[tf], frames[tf])]},
                  faults \in PassFaults :
                  /\ resampled_data' = RunTimeframes(resampled_data, after, faults)
                  /\ last_resample' = [tf \in TimeframeKeys |-> TRUE]
                  /\ ret' = Ret("resample_data", symbol, "ok", frames,
                                {tf \in TimeframeKeys : faults[tf] # "none"})
    /\ UNCHANGED <<tick_data, log, lock, conn>>
    /\ UNCHANGED <<alert_vars, thread_vars>>

\* the pass the application makes after every tick, over all symbols
ResampleDataWithFaults == resample_data_with_faults(None)

\* add_tick calls between the passes
IngestTick == Len(log) < MaxFaultAdds /\ AddTick

FaultNext ==
    \/ IngestTick
    \/ ResampleDataWithFaults

\* ingestion and resampling with failures inside the passes
FaultSpec == Init /\ [][FaultNext]_vars

QueryInit == Init /\ conn = "none"

QueryNext ==
    \/ AddTick
    \/ ResampleData
    \/ GetLatestTicks
    \/ GetResampledData
    \/ SaveToCsv

\* ingestion, resampling and the queries, without the sink
QuerySpec == QueryInit /\ [][QueryNext]_vars

----------------------------------------------------------------------------
(* DataStore called from several threads: every call statement by statement. *)
(* A thread that calls while the lock is held waits at 'with self.lock'; its *)
(* call starts with the step that takes the lock.                            *)

\* entry of 'with self.lock' that does not wait for the lock to be free
Acquire_NoExclusion(t) == lock' = t

\* entry of 'with self.lock': the thread takes the lock once it is free
Acquire(t) ==
    /\ lock = "free"
    /\ lock' = t

\* the frame of thread t with the locals of the call it starts
StartFrame(op, arg) == [NoFrame EXCEPT !.op = op, !.arg = arg]

ScopeOf(ticks, symbol) == IF symbol # None THEN RowsOfSymbol(ticks, symbol) ELSE ticks

\* the view of bars that get_resampled_data gives of the series data
ViewOf(data, symbol) ==
    LET filtered == IF symbol # None /\ data # <<>> THEN RowsOfSymbol(data, symbol) ELSE data
    IN IF filtered = <<>> THEN <<>> ELSE SortByTimestamp(filtered)

\* the store after a whole resample_data(symbol) on the store st
SerialResample(st, symbol) ==
    LET scope == ScopeOf(st.tick_data, symbol)
    IN IF scope = <<>> THEN st
       ELSE [st EXCEPT !.resampled_data =
                [tf \in TimeframeKeys |-> UpdateStored(@[tf], ResampledDf(scope, tf))]]

\* add_tick, line 98: the lock is taken
AddTickCall ==
    \E t \in IngestThreads, tick \in TickInputs :
        /\ pc[t] = "idle"
        /\ tick.symbol = t
        /\ Len(log) < MaxThreadAdds
        /\ \A i \in 1..Len(log) : log[i] # tick
        /\ Acquire(t)
        /\ pc' = [pc EXCEPT ![t] = "add_concat"]
        /\ frame' = [frame EXCEPT ![t] = StartFrame("add_tick", tick)]
        /\ log' = Append(log, tick)
        /\ serial' = [serial EXCEPT !.tick_data = AppendTick(@, tick)]
        /\ UNCHANGED <<tick_data, resampled_data, last_resample, conn, ret>>
        /\ UNCHANGED alert_vars

\* lines 100-102, right-hand side: pd.concat([self.tick_data, new_row])
AddConcat ==
    \E t \in IngestThreads :
        /\ pc[t] = "add_concat"
        /\ frame' = [frame EXCEPT ![t].value = Append(tick_data, frame[t].arg)]
        /\ pc' = [pc EXCEPT ![t] = "add_assign"]
        /\ UNCHANGED <<tick_data, resampled_data, last_resample, lock, conn, ret, log, serial>>
        /\ UNCHANGED alert_vars

\* lines 101-102, the assignment to self.tick_data
AddAssign ==
    \E t \in IngestThreads :
        /\ pc[t] = "add_assign"
        /\ tick_data' = frame[t].value
        /\ frame' = [frame EXCEPT ![t].value = <<>>]
        /\ pc' = [pc EXCEPT ![t] = "add_trim"]
        /\ UNCHANGED <<resampled_data, last_resample, lock, conn, ret, log, serial>>
        /\ UNCHANGED alert_vars

\* lines 105-109: the eviction, and the test of self.conn
AddTrim ==
    \E t \in IngestThreads :
        /\ pc[t] = "add_trim"
        /\ tick_data' = IF Len(tick_data) > TICK_HIGH_WATER
                        THEN TailRows(tick_data, TICK_LOW_WATER) ELSE tick_data
        /\ pc' = [pc EXCEPT ![t] = IF conn = "open" THEN "add_sink" ELSE "unlock"]
        /\ UNCHANGED <<resampled_data, last_resample, lock, conn, ret, log, frame, serial>>
        /\ UNCHANGED alert_vars

\* lines 110-111: new_row.to_sql(...), inside the with block; it may raise
AddSink ==
    \E t \in IngestThreads, sink_fails \in BOOLEAN :
        /\ pc[t] = "add_sink"
        /\ frame' = [frame EXCEPT ![t].outcome = IF sink_fails THEN "raised" ELSE "ok"]
        /\ pc' = [pc EXCEPT ![t] = "unlock"]
        /\ UNCHANGED <<tick_data, resampled_data, last_resample, lock, conn, ret, log, serial>>
        /\ UNCHANGED alert_vars

\* resample_data, line 137: the lock is taken
ResampleCall ==
    \E t \in IngestThreads, symbol \in SymbolArgs :
        /\ pc[t] = "idle"
        /\ Acquire(t)
        /\ pc' = [pc EXCEPT ![t] = "rs_copy"]
        /\ frame' = [frame EXCEPT ![t] = StartFrame("resample_data", symbol)]
        /\ serial' = SerialResample(serial, symbol)
        /\ UNCHANGED <<tick_data, resampled_data, last_resample, conn, ret, log>>
        /\ UNCHANGED alert_vars

\* lines 139-146: the copy of the ticks, and the return on an empty copy
RsCopy ==
    \E t \in IngestThreads :
        /\ pc[t] = "rs_copy"
        /\ frame' = [frame EXCEPT ![t].ticks = Scope(frame[t].arg), ![t].k = 1]
        /\ pc' = [pc EXCEPT ![t] = IF Scope(frame[t].arg) = <<>> THEN "unlock"
                                   ELSE "rs_timeframe"]
        /\ UNCHANGED <<tick_data, resampled_data, last_resample, lock, conn, ret, log, serial>>
        /\ UNCHANGED alert_vars

\* where the loop goes after timeframe number k
AfterTimeframe(t) ==
    /\ pc' = [pc EXCEPT ![t] = IF frame[t].k < Len(Timeframes) THEN "rs_timeframe"
                               ELSE "rs_stamp"]
    /\ frame' = [frame EXCEPT ![t].k = @ + 1]

\* lines 160-206: one timeframe is aggregated, merged and trimmed
RsTimeframe ==
    \E t \in IngestThreads :
        /\ pc[t] = "rs_timeframe"
        /\ resampled_data' =
              [resampled_data EXCEPT ![Timeframes[frame[t].k]] =
                  UpdateStored(@, ResampledDf(frame[t].ticks, Timeframes[frame[t].k]))]
        /\ IF conn = "open"
           THEN pc' = [pc EXCEPT ![t] = "rs_sink"] /\ frame' = frame
           ELSE AfterTimeframe(t)
        /\ UNCHANGED <<tick_data, last_resample, lock, conn, ret, log, serial>>
        /\ UNCHANGED alert_vars

\* lines 207-213: resampled_df.to_sql(...), inside the with block; when it
\* raises the except prints and the loop goes on
RsSink ==
    \E t \in IngestThreads :
        /\ pc[t] = "rs_sink"
        /\ AfterTimeframe(t)
        /\ UNCHANGED <<tick_data, resampled_data, last_resample, lock, conn, ret, log, serial>>
        /\ UNCHANGED alert_vars

\* lines 216-218: the timestamps of the pass
RsStamp ==
    \E t \in IngestThreads :
        /\ pc[t] = "rs_stamp"
        /\ last_resample' = [tf \in TimeframeKeys |-> TRUE]
        /\ pc' = [pc EXCEPT ![t] = "unlock"]
        /\ UNCHANGED <<tick_data, resampled_data, lock, conn, ret, log, frame, serial>>
        /\ UNCHANGED alert_vars

\* get_latest_ticks, line 124: the lock is taken
GetLatestCall ==
    \E symbol \in SymbolArgs, limit \in LimitArgs :
        /\ pc["dashboard"] = "idle"
        /\ Acquire("dashboard")
        /\ pc' = [pc EXCEPT !["dashboard"] = "gl_read"]
        /\ frame' = [frame EXCEPT !["dashboard"] =
                        [StartFrame("get_latest_ticks", <<symbol, limit>>)
                            EXCEPT !.expect = TailRows(ScopeOf(serial.tick_data, symbol), limit)]]
        /\ UNCHANGED <<tick_data, resampled_data, last_resample, conn, ret, log, serial>>
        /\ UNCHANGED alert_vars

\* lines 125-128: the copy, the filter and the tail
GlRead ==
    /\ pc["dashboard"] = "gl_read"
    /\ frame' = [frame EXCEPT !["dashboard"].value =
                    TailRows(Scope(frame["dashboard"].arg[1]), frame["dashboard"].arg[2])]
    /\ pc' = [pc EXCEPT !["dashboard"] = "unlock"]
    /\ UNCHANGED <<tick_data, resampled_data, last_resample, lock, conn, ret, log, serial>>
    /\ UNCHANGED alert_vars

\* get_resampled_data, lines 231-233: the key test, before the lock
GetResampledRaise ==
    \E timeframe \in TimeframeArgs \ DOMAIN resampled_data, symbol \in SymbolArgs :
        /\ pc["dashboard"] = "idle"
        /\ pc' = [pc EXCEPT !["dashboard"] = "raise"]
        /\ frame' = [frame EXCEPT !["dashboard"] =
                        [StartFrame("get_resampled_data", <<timeframe, symbol>>)
                            EXCEPT !.outcome = "ValueError"]]
        /\ UNCHANGED <<tick_data, resampled_data, last_resample, lock, conn, ret, log, serial>>
        /\ UNCHANGED alert_vars

\* the exception leaves the call
Raise ==
    /\ pc["dashboard"] = "raise"
    /\ pc' = [pc EXCEPT !["dashboard"] = "idle"]
    /\ frame' = [frame EXCEPT !["dashboard"] = NoFrame]
    /\ UNCHANGED <<tick_data, resampled_data, last_resample, lock, conn, ret, log, serial>>
    /\ UNCHANGED alert_vars

\* get_resampled_data, line 235: the lock is taken
GetResampledCall ==
    \E timeframe \in TimeframeArgs \cap DOMAIN resampled_data, symbol \in SymbolArgs :
        /\ pc["dashboard"] = "idle"
        /\ Acquire("dashboard")
        /\ pc' = [pc EXCEPT !["dashboard"] = "gr_read"]
        /\ frame' = [frame EXCEPT !["dashboard"] =
                        [StartFrame("get_resampled_data", <<timeframe, symbol>>)
                            EXCEPT !.expect = ViewOf(serial.resampled_data[timeframe], symbol)]]
        /\ UNCHANGED <<tick_data, resampled_data, last_resample, conn, ret, log, serial>>
        /\ UNCHANGED alert_vars

\* lines 236-242: the copy, the filter and the sort
GrRead ==
    /\ pc["dashboard"] = "gr_read"
    /\ frame' = [frame EXCEPT !["dashboard"].value =
                    ResampledView(frame["dashboard"].arg[1], frame["dashboard"].arg[2])]
    /\ pc' = [pc EXCEPT !["dashboard"] = "unlock"]
    /\ UNCHANGED <<tick_data, resampled_data, last_resample, lock, conn, ret, log, serial>>
    /\ UNCHANGED alert_vars

\* exit of the with block, by the return or by an exception
Release ==
    \E t \in Threads :
        /\ pc[t] = "unlock"
        /\ lock' = "free"
        /\ pc' = [pc EXCEPT ![t] = "idle"]
        /\ frame' = [frame EXCEPT ![t] = NoFrame]
        /\ UNCHANGED <<tick_data, resampled_data, last_resample, conn, ret, log, serial>>
        /\ UNCHANGED alert_vars

ThreadNext ==
    \/ AddTickCall
    \/ AddConcat
    \/ AddAssign
    \/ AddTrim
    \/ AddSink
    \/ ResampleCall
    \/ RsCopy
    \/ RsTimeframe
    \/ RsSink
    \/ RsStamp
    \/ GetLatestCall
    \/ GlRead
    \/ GetResampledRaise
    \/ Raise
    \/ GetResampledCall
    \/ GrRead
    \/ Release

\* the store called from the ingestion threads and the dashboard
ThreadSpec == Init /\ [][ThreadNext]_vars

----------------------------------------------------------------------------
(* AlertSystem *)

AlertNames == {"X", "Y"}

\* the alerts registered: name, condition function, symbol filter
AlertInputs ==
    { <<"X", "zscore_alert", None>>,
      <<"X", "price_alert", "BTCUSDT">>,
      <<"Y", "zscore_alert", "BTCUSDT">>,
      <<"Y", "price_alert", None>> }
\* data frames passed to check_alerts: one with a 'zscore' column whose last
\* value is above 2, one with a 'zscore' column whose last value is below 2,
\* one with a 'price' column only, whose last value is high
DataArgs == {"zscore_high", "zscore_low", "price_high"}

\* condition functions: the zscore_alert of the application, which returns
\* False on a frame without the 'zscore' column, and a price alert that reads
\* data['price'] without testing that the column is there
ConditionFuncs == {"zscore_alert", "price_alert"}

\* the outcome of condition_func(data): "true", "false" or "raise"
Call(condition_func, data) ==
    CASE condition_func = "zscore_alert" ->
            IF data = "zscore_high" THEN "true" ELSE "false"
      [] condition_func = "price_alert" ->
            IF data = "price_high" THEN "true" ELSE "raise"

NoResult == [triggered |-> <<>>, evaluated |-> <<>>, logged |-> <<>>]

\* a loop without the try: the first raising predicate ends it
RECURSIVE CheckLoop_AbortsOnRaise(_, _, _, _, _, _)
CheckLoop_AbortsOnRaise(registry, i, data, symbol, now, acc) ==
    IF i > Len(registry) THEN acc
    ELSE IF ~registry[i].active
    THEN CheckLoop_AbortsOnRaise(registry, i + 1, data, symbol, now, acc)
    ELSE IF registry[i].symbol # None /\ symbol # None /\ registry[i].symbol # symbol
    THEN CheckLoop_AbortsOnRaise(registry, i + 1, data, symbol, now, acc)
    ELSE LET outcome == Call(registry[i].condition_func, data)
             entry == [name |-> registry[i].name,
                       symbol |-> IF symbol # None THEN symbol ELSE registry[i].symbol,
                       timestamp |-> now]
         IN IF outcome = "raise"
            THEN [acc EXCEPT !.evaluated = Append(@, i), !.logged = Append(@, i)]
            ELSE CheckLoop_AbortsOnRaise(registry, i + 1, data, symbol, now,
                    [triggered |-> IF outcome = "true" THEN Append(acc.triggered, entry)
                                   ELSE acc.triggered,
                     evaluated |-> Append(acc.evaluated, i),
                     logged |-> acc.logged])

\* a loop that skips every alert whose filter differs from the argument, a
\* missing argument included
RECURSIVE CheckLoop_StrictFilter(_, _, _, _, _, _)
CheckLoop_StrictFilter(registry, i, data, symbol, now, acc) ==
    IF i > Len(registry) THEN acc
    ELSE IF ~registry[i].active
    THEN CheckLoop_StrictFilter(registry, i + 1, data, symbol, now, acc)
    ELSE IF registry[i].symbol # None /\ registry[i].symbol # symbol
    THEN CheckLoop_StrictFilter(registry, i + 1, data, symbol, now, acc)
    ELSE LET outcome == Call(registry[i].condition_func, data)
             entry == [name |-> registry[i].name,
                       symbol |-> IF symbol # None THEN symbol ELSE registry[i].symbol,
                       timestamp |-> now]
         IN CheckLoop_StrictFilter(registry, i + 1, data, symbol, now,
               [triggered |-> IF outcome = "true" THEN Append(acc.triggered, entry)
                              ELSE acc.triggered,
                evaluated |-> Append(acc.evaluated, i),
                logged |-> IF outcome = "raise" THEN Append(acc.logged, i) ELSE acc.logged])

\* the loop of check_alerts from registry position i on: acc.triggered is
\* triggered_alerts, acc.evaluated the positions whose predicate was called,
\* acc.logged the positions whose predicate raised
RECURSIVE CheckLoop(_, _, _, _, _, _)
CheckLoop(registry, i, data, symbol, now, acc) ==
    IF i > Len(registry) THEN acc
    ELSE IF ~registry[i].active
    THEN CheckLoop(registry, i + 1, data, symbol, now, acc)
    ELSE IF registry[i].symbol # None /\ symbol # None /\ registry[i].symbol # symbol
    THEN CheckLoop(registry, i + 1, data, symbol, now, acc)
    ELSE LET outcome == Call(registry[i].condition_func, data)
             entry == [name |-> registry[i].name,
                       symbol |-> IF symbol # None THEN symbol ELSE registry[i].symbol,
                       timestamp |-> now]
         IN CheckLoop(registry, i + 1, data, symbol, now,
               [triggered |-> IF outcome = "true" THEN Append(acc.triggered, entry)
                              ELSE acc.triggered,
                evaluated |-> Append(acc.evaluated, i),
                logged |-> IF outcome = "raise" THEN Append(acc.logged, i) ELSE acc.logged])

\* add_alert(name, condition_func, symbol)
add_alert(name, condition_func, symbol) ==
    /\ alert_lock = "free"
    /\ alerts' = Append(alerts, [name |-> name, condition_func |-> condition_func,
                                 symbol |-> symbol, active |-> TRUE])
    /\ alert_ret' = Ret("add_alert", name, "ok", <<>>, <<>>)
    /\ UNCHANGED <<alert_history, alert_lock, clock>>
    /\ UNCHANGED <<store_vars, thread_vars>>

AddAlert ==
    \E input \in AlertInputs :
        /\ Len(alerts) < MaxAlerts
        /\ add_alert(input[1], input[2], input[3])

\* a removal that drops the first alert named name only
remove_alert_FirstOnly(name) ==
    /\ alert_lock = "free"
    /\ alerts' =
          LET matches == {i \in 1..Len(alerts) : alerts[i].name = name}
          IN IF matches = {} THEN alerts
             ELSE LET first == CHOOSE i \in matches : \A j \in matches : i <= j
                  IN SubSeq(alerts, 1, first - 1) \o SubSeq(alerts, first + 1, Len(alerts))
    /\ alert_ret' = Ret("remove_alert", name, "ok", <<>>, <<>>)
    /\ UNCHANGED <<alert_history, alert_lock, clock>>
    /\ UNCHANGED <<store_vars, thread_vars>>

\* remove_alert(name)
remove_alert(name) ==
    /\ alert_lock = "free"
    /\ alerts' = SelectSeq(alerts, LAMBDA a : a.name # name)
    /\ alert_ret' = Ret("remove_alert", name, "ok", <<>>, <<>>)
    /\ UNCHANGED <<alert_history, alert_lock, clock>>
    /\ UNCHANGED <<store_vars, thread_vars>>

RemoveAlert == \E name \in AlertNames : remove_alert(name)

\* a check that keeps only the entries of the last call in the history
check_alerts_ReplacesHistory(data, symbol) ==
    /\ alert_lock = "free"
    /\ \E result \in {CheckLoop(alerts, 1, data, symbol, clock + 1, NoResult)} :
          /\ alert_history' = result.triggered
          /\ alert_ret' = Ret("check_alerts", <<data, symbol>>, "ok",
                              [triggered |-> result.triggered,
                               evaluated |-> result.evaluated],
                              result.logged)
    /\ clock' = clock + 1
    /\ UNCHANGED <<alerts, alert_lock>>
    /\ UNCHANGED <<store_vars, thread_vars>>

\* check_alerts(data, symbol)
check_alerts(data, symbol) ==
    /\ alert_lock = "free"
    /\ \E result \in {CheckLoop(alerts, 1, data, symbol, clock + 1, NoResult)} :
          /\ alert_history' = alert_history \o result.triggered
          /\ alert_ret' = Ret("check_alerts", <<data, symbol>>, "ok",
                              [triggered |-> result.triggered,
                               evaluated |-> result.evaluated],
                              result.logged)
    /\ clock' = clock + 1
    /\ UNCHANGED <<alerts, alert_lock>>
    /\ UNCHANGED <<store_vars, thread_vars>>

CheckAlerts ==
    \E data \in DataArgs, symbol \in SymbolArgs :
        /\ clock < MaxChecks
        /\ check_alerts(data, symbol)

\* get_alert_history()
get_alert_history ==
    /\ alert_lock = "free"
    /\ alert_ret' = Ret("get_alert_history", None, "ok", alert_history, <<>>)
    /\ UNCHANGED <<alerts, alert_history, alert_lock, clock>>
    /\ UNCHANGED <<store_vars, thread_vars>>

\* a loop without the break: the flag of every alert named name is set
SetActive_AllMatches(registry, name, flag) ==
    [i \in 1..Len(registry) |->
        IF registry[i].name = name THEN [registry[i] EXCEPT !.active = flag]
        ELSE registry[i]]

\* the registry after the flag of the first alert named name is set
SetActive(registry, name, flag) ==
    LET matches == {i \in 1..Len(registry) : registry[i].name = name}
    IN IF matches = {} THEN registry
       ELSE LET first == CHOOSE i \in matches : \A j \in matches : i <= j
            IN [registry EXCEPT ![first].active = flag]

\* activate_alert(name)
activate_alert(name) ==
    /\ alert_lock = "free"
    /\ alerts' = SetActive(alerts, name, TRUE)
    /\ alert_ret' = Ret("activate_alert", name, "ok", <<>>, <<>>)
    /\ UNCHANGED <<alert_history, alert_lock, clock>>
    /\ UNCHANGED <<store_vars, thread_vars>>

ActivateAlert == \E name \in AlertNames : activate_alert(name)

\* deactivate_alert(name)
deactivate_alert(name) ==
    /\ alert_lock = "free"
    /\ alerts' = SetActive(alerts, name, FALSE)
    /\ alert_ret' = Ret("deactivate_alert", name, "ok", <<>>, <<>>)
    /\ UNCHANGED <<alert_history, alert_lock, clock>>
    /\ UNCHANGED <<store_vars, thread_vars>>

DeactivateAlert == \E name \in AlertNames : deactivate_alert(name)

\* get_active_alerts()
get_active_alerts ==
    /\ alert_lock = "free"
    /\ alert_ret' = Ret("get_active_alerts", None, "ok",
                        SelectSeq(alerts, LAMBDA a : a.active), <<>>)
    /\ UNCHANGED <<alerts, alert_history, alert_lock, clock>>
    /\ UNCHANGED <<store_vars, thread_vars>>

AlertNext ==
    \/ AddAlert
    \/ RemoveAlert
    \/ CheckAlerts
    \/ get_alert_history
    \/ ActivateAlert
    \/ DeactivateAlert
    \/ get_active_alerts

\* the alert engine alone, over a store without a sink
AlertSpec == QueryInit /\ [][AlertNext]_vars

\* registration and checks of the runs that follow the history over several
\* check_alerts calls
RegisterAlert ==
    \E input \in AlertInputs :
        /\ Len(alerts) < MaxHistoryAlerts
        /\ add_alert(input[1], input[2], input[3])

RepeatCheckAlerts ==
    \E data \in DataArgs, symbol \in SymbolArgs :
        /\ clock < MaxHistoryChecks
        /\ check_alerts(data, symbol)

HistoryNext ==
    \/ RegisterAlert
    \/ RemoveAlert
    \/ RepeatCheckAlerts
    \/ get_alert_history
    \/ ActivateAlert
    \/ DeactivateAlert
    \/ get_active_alerts

\* the alert engine over several check_alerts calls
HistorySpec == QueryInit /\ [][HistoryNext]_vars

\* positions of the registry whose alert is active, in registry order: the
\* dicts the list returned by get_active_alerts refers to
ActivePositions ==
    SelectSeq([i \in 1..Len(alerts) |-> i], LAMBDA i : alerts[i].active)

\* the caller of get_active_alerts writes alert['active'] = False in an entry
\* of the list returned: the entries are the dicts of the registry themselves
CallerWritesAlert ==
    /\ alert_ret.op = "get_active_alerts"
    /\ \E k \in 1..Len(ActivePositions) :
          /\ alerts' = [alerts EXCEPT ![ActivePositions[k]].active = FALSE]
          /\ alert_ret' = Ret("caller_write", k, "ok",
                              [alert_ret.value EXCEPT ![k].active = FALSE], <<>>)
    /\ UNCHANGED <<alert_history, alert_lock, clock>>
    /\ UNCHANGED <<store_vars, thread_vars>>

\* the caller of get_alert_history writes entry['symbol'] in an entry of the
\* list returned: list.copy() is shallow, the entries are the dicts of the
\* history themselves
CallerWritesEntry ==
    /\ alert_ret.op = "get_alert_history"
    /\ \E k \in 1..Len(alert_history), symbol \in SymbolSet :
          /\ alert_history[k].symbol # symbol
          /\ alert_history' = [alert_history EXCEPT ![k].symbol = symbol]
          /\ alert_ret' = Ret("caller_write", k, "ok",
                              [alert_ret.value EXCEPT ![k].symbol = symbol], <<>>)
    /\ UNCHANGED <<alerts, alert_lock, clock>>
    /\ UNCHANGED <<store_vars, thread_vars>>

\* the caller takes the first entry out of the list returned: both lists
\* returned are new list objects
CallerChangesList ==
    /\ alert_ret.op \in {"get_active_alerts", "get_alert_history"}
    /\ alert_ret.value # <<>>
    /\ alert_ret' = Ret("caller_write", 0, "ok", Tail(alert_ret.value), <<>>)
    /\ UNCHANGED <<alerts, alert_history, alert_lock, clock>>
    /\ UNCHANGED <<store_vars, thread_vars>>

CallerNext ==
    \/ AddAlert
    \/ RemoveAlert
    \/ CheckAlerts
    \/ get_alert_history
    \/ ActivateAlert
    \/ DeactivateAlert
    \/ get_active_alerts
    \/ CallerWritesAlert
    \/ CallerWritesEntry
    \/ CallerChangesList

\* the alert engine and a caller that changes the values returned to it
CallerSpec == QueryInit /\ [][CallerNext]_vars

----------------------------------------------------------------------------
(* QuantAnalytics: stateless operations on series.  A series is a sequence  *)
(* of values in index order, NaN marking a missing value; two series are   *)
(* aligned by position, an index missing in one of them being a NaN there. *)

SeriesValues == {1, 2, 4, NaN}
PairValues == {1, 2, NaN}

SeriesInputs == UNION {[1..n -> SeriesValues] : n \in 0..MaxSeriesLen}
PairInputs == UNION {[1..n -> PairValues \X PairValues] : n \in 0..MaxSeriesLen}
WindowArgs == 0..(MaxSeriesLen + 1)
HedgeRatioArgs == {0, 1, 2}

\* frames passed to calculate_price_statistics: with or without 'price'
FrameInputs ==
    {[columns |-> {"price"}, price |-> x] : x \in SeriesInputs}
        \cup {[columns |-> {"zscore"}, price |-> <<>>]}

\* Series.dropna()
DropNa(series) == SelectSeq(series, LAMBDA x : x # NaN)

\* pd.DataFrame({'asset1': ..., 'asset2': ...}).dropna()
Aligned(pairs) == SelectSeq(pairs, LAMBDA r : r[1] # NaN /\ r[2] # NaN)

Column(df, c) == [i \in 1..Len(df) |-> df[i][c]]

SumSq(x) == SumOf([i \in 1..Len(x) |-> x[i] * x[i]])
SumProd(x, y) == SumOf([i \in 1..Len(x) |-> x[i] * y[i]])

\* n^2 times the population variance of x, n(n - 1) times the sample variance
VarNum(x) == Len(x) * SumSq(x) - SumOf(x) * SumOf(x)

\* n^2 times the population covariance of x and y
CovNum(x, y) == Len(x) * SumProd(x, y) - SumOf(x) * SumOf(y)

\* a float result as the fraction num / den, den > 0
Fraction(num, den) == [num |-> num, den |-> den]
Zero == Fraction(0, 1)

\* an undefined (NaN) element of a rolling result, and a defined one: the
\* value is num / sqrt(var), up to the factor the window size gives
Undefined == [defined |-> FALSE, num |-> 0, var |-> 0]
Defined(num, var) == [defined |-> TRUE, num |-> num, var |-> var]

\* a rolling window that gives a value from the first element on
Rolling_Partial(series, window, i) ==
    IF i < window THEN SubSeq(series, 1, i) ELSE SubSeq(series, i - window + 1, i)

\* series.rolling(window): the window ending at i, empty while fewer than
\* window elements are there (min_periods = window)
Rolling(series, window, i) ==
    IF i < window THEN <<>> ELSE SubSeq(series, i - window + 1, i)

\* the window is there and holds no missing value
Complete(w) == w # <<>> /\ \A k \in 1..Len(w) : w[k] # NaN

\* calculate_zscore(series, window)
calculate_zscore(series, window) ==
    IF Len(series) < window \/ window <= 0
    THEN [i \in 1..Len(series) |-> Undefined]
    ELSE [i \in 1..Len(series) |->
            LET w == Rolling(series, window, i)
            IN IF ~Complete(w) THEN Undefined        \* rolling mean is NaN
               ELSE IF Len(w) < 2 THEN Undefined      \* std with ddof = 1 is NaN
               ELSE IF VarNum(w) = 0 THEN Undefined   \* replace(0, np.nan)
               ELSE Defined(Len(w) * series[i] - SumOf(w), VarNum(w))]

CalculateZscore ==
    /\ ret.op = "init"
    /\ \E series \in SeriesInputs, window \in WindowArgs :
        /\ ret' = Ret("calculate_zscore", <<series, window>>, "ok",
                      calculate_zscore(series, window), {})
        /\ UNCHANGED <<tick_data, resampled_data, last_resample, lock, conn, log>>
        /\ UNCHANGED <<alert_vars, thread_vars>>

\* calculate_correlation(asset1_prices, asset2_prices, window)
calculate_correlation(pairs, window) ==
    LET df == Aligned(pairs)
    IN IF Len(df) < window \/ window <= 0
       THEN [i \in 1..Len(df) |-> Undefined]
       ELSE [i \in 1..Len(df) |->
               LET x == Rolling(Column(df, 1), window, i)
                   y == Rolling(Column(df, 2), window, i)
               IN IF x = <<>> \/ Len(x) < 2 THEN Undefined
                  ELSE IF VarNum(x) = 0 \/ VarNum(y) = 0 THEN Undefined
                  ELSE Defined(CovNum(x, y), VarNum(x) * VarNum(y))]

CalculateCorrelation ==
    /\ ret.op = "init"
    /\ \E pairs \in PairInputs, window \in WindowArgs :
        /\ ret' = Ret("calculate_correlation", <<pairs, window>>, "ok",
                      calculate_correlation(pairs, window), {})
        /\ UNCHANGED <<tick_data, resampled_data, last_resample, lock, conn, log>>
        /\ UNCHANGED <<alert_vars, thread_vars>>

\* calculate_spread(asset1_prices, asset2_prices, hedge_ratio)
calculate_spread(pairs, hedge_ratio) ==
    LET df == Aligned(pairs)
    IN IF df = <<>> THEN <<>>
       ELSE [i \in 1..Len(df) |-> df[i][1] - hedge_ratio * df[i][2]]

CalculateSpread ==
    /\ ret.op = "init"
    /\ \E pairs \in PairInputs, hedge_ratio \in HedgeRatioArgs :
        /\ ret' = Ret("calculate_spread", <<pairs, hedge_ratio>>, "ok",
                      calculate_spread(pairs, hedge_ratio), {})
        /\ UNCHANGED <<tick_data, resampled_data, last_resample, lock, conn, log>>
        /\ UNCHANGED <<alert_vars, thread_vars>>

NoStatistics == [count |-> 0, sum |-> 0, min_price |-> 0, max_price |-> 0, returns |-> 0]

\* calculate_price_statistics(data): {} is the result without a count
calculate_price_statistics(data) ==
    IF data.price = <<>> \/ "price" \notin data.columns THEN NoStatistics
    ELSE LET prices == DropNa(data.price)
         IN IF Len(prices) = 0 THEN NoStatistics
            ELSE [count |-> Len(prices), sum |-> SumOf(prices),
                  min_price |-> MinOf(prices), max_price |-> MaxOf(prices),
                  returns |-> Len(prices) - 1]

CalculatePriceStatistics ==
    /\ ret.op = "init"
    /\ \E data \in FrameInputs :
        /\ ret' = Ret("calculate_price_statistics", data, "ok",
                      calculate_price_statistics(data), {})
        /\ UNCHANGED <<tick_data, resampled_data, last_resample, lock, conn, log>>
        /\ UNCHANGED <<alert_vars, thread_vars>>

\* OLS(y, [1, x]).fit().params['asset2']: the least-squares slope; fit()
\* solves by the pseudo-inverse, so that a constant x (a design of rank 1)
\* raises nothing and gives the solution of least norm,
\* mean(y) * c / (1 + c^2) for x = c
OLSSlope(y, x) ==
    IF VarNum(x) # 0 THEN Fraction(CovNum(y, x), VarNum(x))
    ELSE Fraction(x[1] * SumOf(y), Len(x) * (1 + x[1] * x[1]))

\* the except branch: np.cov(...)[0, 1] divides by n - 1, np.var by n
Fallback(y, x) ==
    IF VarNum(x) # 0
    THEN Fraction(CovNum(y, x) * Len(x), (Len(x) - 1) * VarNum(x))
    ELSE Zero

\* calculate_hedge_ratio(asset1_prices, asset2_prices); ols_raises: the
\* regression raises
calculate_hedge_ratio(pairs, ols_raises) ==
    LET df == Aligned(pairs)
    IN IF Len(df) < 2 THEN Zero
       ELSE IF ~ols_raises THEN OLSSlope(Column(df, 1), Column(df, 2))
       ELSE Fallback(Column(df, 1), Column(df, 2))

CalculateHedgeRatio ==
    /\ ret.op = "init"
    /\ \E pairs \in PairInputs, ols_raises \in BOOLEAN :
        /\ ret' = Ret("calculate_hedge_ratio", pairs, "ok",
                      calculate_hedge_ratio(pairs, ols_raises),
                      IF ols_raises /\ Len(Aligned(pairs)) >= 2 THEN {"OLS"} ELSE {})
        /\ UNCHANGED <<tick_data, resampled_data, last_resample, lock, conn, log>>
        /\ UNCHANGED <<alert_vars, thread_vars>>

\* outcomes of adfuller(series_clean): it raises on a constant series, and
\* may raise on any other
AdfFailures(series_clean) ==
    IF \A i \in 1..Len(series_clean) : series_clean[i] = series_clean[1]
    THEN {TRUE} ELSE BOOLEAN

\* a test without the length guard: adfuller is called on any series
perform_adf_test_NoLengthTest(series, adf_raises) ==
    LET series_clean == DropNa(series)
    IN IF adf_raises \/ Len(series_clean) < ADF_MIN_POINTS
       THEN [error |-> "ADF test failed", points |-> Len(series_clean)]
       ELSE [error |-> "", points |-> Len(series_clean)]

\* perform_adf_test(series); adf_raises: adfuller raises
perform_adf_test(series, adf_raises) ==
    LET series_clean == DropNa(series)
    IN IF Len(series_clean) < ADF_MIN_POINTS
       THEN [error |-> "Insufficient data for ADF test", points |-> Len(series_clean)]
       ELSE IF adf_raises
       THEN [error |-> "ADF test failed", points |-> Len(series_clean)]
       ELSE [error |-> "", points |-> Len(series_clean)]

PerformAdfTest ==
    /\ ret.op = "init"
    /\ \E series \in SeriesInputs :
        \E adf_raises \in AdfFailures(DropNa(series)) :
            /\ ret' = Ret("perform_adf_test", series, "ok",
                          perform_adf_test(series, adf_raises),
                          IF adf_raises /\ Len(DropNa(series)) >= ADF_MIN_POINTS
                          THEN {"adfuller"} ELSE {})
            /\ UNCHANGED <<tick_data, resampled_data, last_resample, lock, conn, log>>
            /\ UNCHANGED <<alert_vars, thread_vars>>

AnalyticsNext ==
    \/ CalculatePriceStatistics
    \/ CalculateHedgeRatio
    \/ CalculateSpread
    \/ CalculateZscore
    \/ CalculateCorrelation
    \/ PerformAdfTest

\* the analytics operations, applied to every input of the bounded sets: one
\* call in each run, the operations keeping no state
AnalyticsSpec == QueryInit /\ [][AnalyticsNext]_vars

----------------------------------------------------------------------------
(* Helpers of the properties *)

RowSet(df) == {df[i] : i \in 1..Len(df)}

IsResamplePass == ret.op = "resample_data" /\ Scope(ret.arg) # <<>>

\* positions in df of the ticks of symbol sym that fall in bucket b of tf
PositionsIn(df, sym, b, tf) ==
    {i \in 1..Len(df) : df[i].symbol = sym /\ BucketStart(df[i].timestamp, tf) = b}

\* the (symbol, bucket) pairs of tf that hold at least one tick of df
Occupied(df, tf) == {<<df[i].symbol, BucketStart(df[i].timestamp, tf)>> : i \in 1..Len(df)}

\* position i comes chronologically before or at position j: by timestamp,
\* and by ingestion order among equal timestamps
Before(df, i, j) ==
    \/ df[i].timestamp < df[j].timestamp
    \/ df[i].timestamp = df[j].timestamp /\ i <= j

RECURSIVE QuantitySum(_, _)
QuantitySum(df, I) ==
    IF I = {} THEN 0
    ELSE LET i == CHOOSE x \in I : TRUE IN df[i].quantity + QuantitySum(df, I \ {i})

\* the bar the specification asks for, for the ticks of df at positions I
ExpectedBar(df, I, sym, b) ==
    LET first == CHOOSE i \in I : \A j \in I : Before(df, i, j)
        last == CHOOSE i \in I : \A j \in I : Before(df, j, i)
        top == CHOOSE i \in I : \A j \in I : df[j].price <= df[i].price
        bottom == CHOOSE i \in I : \A j \in I : df[i].price <= df[j].price
    IN [timestamp |-> b, symbol |-> sym,
        open |-> df[first].price, high |-> df[top].price,
        low |-> df[bottom].price, close |-> df[last].price,
        volume |-> QuantitySum(df, I)]

\* comparison of two price fields as Python compares floats: false on NaN
Leq(a, b) == a # NaN /\ b # NaN /\ a <= b

----------------------------------------------------------------------------
(* C1 *)

\* C1: the raw buffer never holds more than the high-water mark of ticks and
\* is always the most recent ticks in ingestion order; the add_tick that would
\* take it past the high-water mark leaves exactly the low-water mark of
\* ticks, the most recently ingested ones in their ingestion order.
C1_BufferEviction ==
    /\ [](/\ Len(tick_data) <= TICK_HIGH_WATER
          /\ tick_data = TailRows(log, Len(tick_data)))
    /\ [][(Len(log') = Len(log) + 1 /\ Len(tick_data) + 1 > TICK_HIGH_WATER)
            => /\ Len(tick_data') = TICK_LOW_WATER
               /\ tick_data' = SubSeq(log', Len(log') - TICK_LOW_WATER + 1, Len(log'))]_vars

C1_Witness ==
    /\ ret.op = "add_tick"
    /\ Len(log) = TICK_HIGH_WATER + 1
    /\ Len(tick_data) = TICK_LOW_WATER

----------------------------------------------------------------------------
(* C2 *)

\* C2: the frame a pass computes for a timeframe holds, for every symbol and
\* bucket in which a tick of the pass falls, exactly one bar, and that bar is
\* open = price of the chronologically first tick, high = maximum price,
\* low = minimum price, close = price of the chronologically last tick,
\* volume = sum of the quantities.
C2_BarsAreOHLCV ==
    IsResamplePass =>
        \A tf \in TimeframeKeys :
            \A sb \in Occupied(Scope(ret.arg), tf) :
                LET df == Scope(ret.arg)
                    rows == SelectSeq(ret.value[tf],
                               LAMBDA r : r.symbol = sb[1] /\ r.timestamp = sb[2])
                IN /\ Len(rows) = 1
                   /\ rows[1] = ExpectedBar(df, PositionsIn(df, sb[1], sb[2], tf), sb[1], sb[2])

\* the scenario of the specification, ingested out of chronological order
C2_Witness ==
    /\ IsResamplePass
    /\ tick_data = << Tick(5, "BTCUSDT", 101, 2), Tick(9, "BTCUSDT", 99, 1),
                      Tick(0, "BTCUSDT", 100, 1) >>
    /\ ret.value["1s"] = << [timestamp |-> 0, symbol |-> "BTCUSDT", open |-> 100,
                             high |-> 101, low |-> 99, close |-> 99, volume |-> 4] >>

----------------------------------------------------------------------------
(* C3 *)

\* the ticks of the pass that fall in bucket sb of tf, in ingestion order
TicksIn(sb, tf) ==
    SelectSeq(Scope(ret.arg),
              LAMBDA r : r.symbol = sb[1] /\ BucketStart(r.timestamp, tf) = sb[2])

\* the bar the pass computed for bucket sb of tf
PassBar(sb, tf) ==
    LET rows == SelectSeq(ret.value[tf], LAMBDA r : r.symbol = sb[1] /\ r.timestamp = sb[2])
    IN rows[1]

\* the orders in which n ticks can be passed to add_tick
Orders(n) == {f \in [1..n -> 1..n] : \A i, j \in 1..n : i # j => f[i] # f[j]}

Reordered(ticks, f) == [i \in 1..Len(ticks) |-> ticks[f[i]]]

\* the one bar a store holding exactly these ticks computes
BarOf(ticks, tf) == ResampledDf(ticks, tf)[1]

\* order f keeps ticks of equal timestamp in their relative order
KeepsTies(ticks, f) ==
    \A i, j \in 1..Len(ticks) :
        (i < j /\ ticks[f[i]].timestamp = ticks[f[j]].timestamp) => f[i] < f[j]

\* C3 as stated: every insertion order of the ticks of one bucket gives the
\* same bar, open and close included.
C3_AnyOrderSameBar ==
    IsResamplePass =>
        \A tf \in TimeframeKeys :
            \A sb \in Occupied(Scope(ret.arg), tf) :
                \A f \in Orders(Len(TicksIn(sb, tf))) :
                    BarOf(Reordered(TicksIn(sb, tf), f), tf) = PassBar(sb, tf)

\* C3 amended: every insertion order of the ticks of one bucket gives the same
\* high, low and volume; open and close are the same for every insertion order
\* that keeps ticks of equal timestamp in the same relative order (among equal
\* timestamps the insertion order decides).
C3_OrderIndependence ==
    IsResamplePass =>
        \A tf \in TimeframeKeys :
            \A sb \in Occupied(Scope(ret.arg), tf) :
                \A f \in Orders(Len(TicksIn(sb, tf))) :
                    LET bar == BarOf(Reordered(TicksIn(sb, tf), f), tf)
                    IN /\ bar.high = PassBar(sb, tf).high
                       /\ bar.low = PassBar(sb, tf).low
                       /\ bar.volume = PassBar(sb, tf).volume
                       /\ KeepsTies(TicksIn(sb, tf), f) =>
                             /\ bar.open = PassBar(sb, tf).open
                             /\ bar.close = PassBar(sb, tf).close

\* a pass over a bucket whose ticks were ingested out of chronological order
C3_Witness ==
    /\ IsResamplePass
    /\ \E sb \in Occupied(Scope(ret.arg), "1s") :
          LET ticks == TicksIn(sb, "1s")
          IN /\ Len(ticks) >= 3
             /\ ticks[1].timestamp > ticks[Len(ticks)].timestamp
             /\ PassBar(sb, "1s").open = ticks[Len(ticks)].price
             /\ PassBar(sb, "1s").open # PassBar(sb, "1s").close

----------------------------------------------------------------------------
(* C4 *)

\* C4 as stated: a second resample_data with the same argument and no add_tick
\* in between leaves the bars of every timeframe as the first call left them.
C4_ResampleIdempotent ==
    [][(/\ ret.op = "resample_data"
        /\ ret'.op = "resample_data"
        /\ ret'.arg = ret.arg
        /\ tick_data' = tick_data)
          => \A tf \in TimeframeKeys :
                RowSet(resampled_data'[tf]) = RowSet(resampled_data[tf])]_vars

----------------------------------------------------------------------------
(* C5 *)

\* C5 as stated: every stored bar has low <= open <= high, low <= close <= high
\* and volume >= 0, and each of its four prices is the price of an ingested
\* tick of its symbol and bucket.
C5_BarsWellFormed ==
    \A tf \in TimeframeKeys :
        \A i \in 1..Len(resampled_data[tf]) :
            LET bar == resampled_data[tf][i]
            IN /\ Leq(bar.low, bar.open) /\ Leq(bar.open, bar.high)
               /\ Leq(bar.low, bar.close) /\ Leq(bar.close, bar.high)
               /\ bar.volume >= 0
               /\ \A p \in {bar.open, bar.high, bar.low, bar.close} :
                     \E k \in 1..Len(log) :
                        /\ log[k].symbol = bar.symbol
                        /\ BucketStart(log[k].timestamp, tf) = bar.timestamp
                        /\ log[k].price = p

----------------------------------------------------------------------------
(* C6 *)

\* C6 as stated: with a failing sink write add_tick and resample_data return
\* normally, and the appended tick and the merged bars stay in place.
C6_SinkFailureNonFatal ==
    /\ ret.op \in {"add_tick", "resample_data"} => ret.outcome = "ok"
    /\ ret.op = "add_tick" => tick_data[Len(tick_data)] = log[Len(log)]
    /\ IsResamplePass =>
          \A tf \in TimeframeKeys :
              /\ resampled_data[tf] # <<>>
              /\ resampled_data[tf][Len(resampled_data[tf])] = ret.value[tf][Len(ret.value[tf])]

----------------------------------------------------------------------------
(* C7 *)

\* C7: get_resampled_data with a timeframe other than '1s', '1min', '5min'
\* fails with the invalid-timeframe error and changes nothing in the store;
\* the keys of the stored series are those three in every reachable state.
C7_InvalidTimeframe ==
    /\ [](DOMAIN resampled_data = {"1s", "1min", "5min"})
    /\ [][(ret'.op = "get_resampled_data" /\ ret'.arg[1] \notin {"1s", "1min", "5min"})
            => /\ ret'.outcome = "ValueError"
               /\ UNCHANGED <<tick_data, resampled_data, last_resample, lock, conn>>]_vars

C7_Witness ==
    /\ ret.op = "get_resampled_data"
    /\ ret.arg[1] = "1h"
    /\ ret.outcome = "ValueError"
    /\ resampled_data["1s"] # <<>>

----------------------------------------------------------------------------
(* C8 *)

\* positions of the stored bars of timeframe tf that a query for sym selects
Selected(tf, sym) ==
    {i \in 1..Len(resampled_data[tf]) : sym = None \/ resampled_data[tf][i].symbol = sym}

\* C8: get_resampled_data on a configured timeframe returns normally, its
\* result holds exactly the stored bars of that timeframe (those of the symbol
\* when one is given, none being an empty result), in non-decreasing timestamp
\* order, and the call leaves the stored series as they were.
C8_SortedSnapshot ==
    /\ [](ret.op = "get_resampled_data" /\ ret.outcome = "ok"
            => /\ RowSet(ret.value) =
                    {resampled_data[ret.arg[1]][i] : i \in Selected(ret.arg[1], ret.arg[2])}
               /\ Len(ret.value) = Cardinality(Selected(ret.arg[1], ret.arg[2]))
               /\ \A i, j \in 1..Len(ret.value) :
                     i < j => ret.value[i].timestamp <= ret.value[j].timestamp)
    /\ [][ret'.op = "get_resampled_data"
            => /\ resampled_data' = resampled_data
               /\ ret'.arg[1] \in {"1s", "1min", "5min"} => ret'.outcome = "ok"]_vars

\* a query over a series that is not stored in timestamp order
C8_Witness ==
    /\ ret.op = "get_resampled_data"
    /\ ret.outcome = "ok"
    /\ ret.arg[2] = None
    /\ Len(ret.value) >= 2
    /\ ret.value # resampled_data[ret.arg[1]]

----------------------------------------------------------------------------
(* C9 *)

IsCheck == alert_ret.op = "check_alerts"

Positions == [i \in 1..Len(alerts) |-> i]

\* the entry check_alerts makes for the alert at position i
EntryOf(i, symbol, now) ==
    [name |-> alerts[i].name,
     symbol |-> IF symbol # None THEN symbol ELSE alerts[i].symbol,
     timestamp |-> now]

\* the entries of the positions ps whose predicate returns true on data
EntriesOf(ps, data, symbol, now) ==
    LET hits == SelectSeq(ps, LAMBDA i : Call(alerts[i].condition_func, data) = "true")
    IN [k \in 1..Len(hits) |-> EntryOf(hits[k], symbol, now)]

\* C9 as stated: the predicates called are those of the active alerts whose
\* filter is absent or equal to the supplied symbol, an alert with a filter
\* not being evaluated when no symbol is supplied; the result is one entry
\* per such alert whose predicate returned true, in registry order, and the
\* history grows by exactly these entries.
C9_EvaluatesMatchingOnly ==
    /\ [](IsCheck =>
            LET data == alert_ret.arg[1]
                symbol == alert_ret.arg[2]
                due == SelectSeq(Positions, LAMBDA i :
                          /\ alerts[i].active
                          /\ alerts[i].symbol = None \/ alerts[i].symbol = symbol)
            IN /\ alert_ret.value.evaluated = due
               /\ alert_ret.value.triggered = EntriesOf(due, data, symbol, clock))
    /\ [][clock' = clock + 1
            => alert_history' = alert_history \o alert_ret'.value.triggered]_vars

\* C9 amended: the predicates called are those of the active alerts whose
\* filter is absent or equal to the supplied symbol, and, when no symbol is
\* supplied, those of all active alerts whatever their filter; the result is
\* one entry per such alert whose predicate returned true, in registry order,
\* and the history grows by exactly these entries in the same order.
C9_EvaluatesActiveMatching ==
    /\ [](IsCheck =>
            LET data == alert_ret.arg[1]
                symbol == alert_ret.arg[2]
                due == SelectSeq(Positions, LAMBDA i :
                          /\ alerts[i].active
                          /\ \/ alerts[i].symbol = None
                             \/ symbol = None
                             \/ alerts[i].symbol = symbol)
            IN /\ alert_ret.value.evaluated = due
               /\ alert_ret.value.triggered = EntriesOf(due, data, symbol, clock))
    /\ [][clock' = clock + 1
            => alert_history' = alert_history \o alert_ret'.value.triggered]_vars

\* two alerts named "X" on the same satisfied predicate: two results, and
\* the history two entries longer
C9_Witness ==
    /\ IsCheck
    /\ Len(alerts) = 2
    /\ alerts[1].name = "X" /\ alerts[2].name = "X"
    /\ alerts[1].condition_func = alerts[2].condition_func
    /\ Len(alert_ret.value.triggered) = 2
    /\ alert_ret.value.triggered[1].name = "X" /\ alert_ret.value.triggered[2].name = "X"
    /\ Len(alert_history) = 2

----------------------------------------------------------------------------
(* C10 *)

\* the registry without the alerts whose predicate raises on data
WithoutRaising(data) ==
    SelectSeq(alerts, LAMBDA a : Call(a.condition_func, data) # "raise")

\* C10: when a predicate raises, check_alerts returns normally with the lock
\* free, the raising alert has no entry in the result, every later alert that
\* is due is still evaluated, and the result is the one the same call gives
\* on the registry without the raising alerts.
C10_PredicateFailureIsolated ==
    IsCheck =>
        LET data == alert_ret.arg[1]
            symbol == alert_ret.arg[2]
            raised == alert_ret.logged
        IN /\ alert_ret.outcome = "ok"
           /\ alert_lock = "free"
           /\ \A k \in 1..Len(raised) :
                 /\ Call(alerts[raised[k]].condition_func, data) = "raise"
                 /\ \A j \in (raised[k] + 1)..Len(alerts) :
                       (/\ alerts[j].active
                        /\ alerts[j].symbol \in {None, symbol} \/ symbol = None)
                          => \E e \in 1..Len(alert_ret.value.evaluated) :
                                alert_ret.value.evaluated[e] = j
           /\ \A i \in 1..Len(alerts) :
                 (alerts[i].active /\ Call(alerts[i].condition_func, data) = "raise"
                   /\ (alerts[i].symbol \in {None, symbol} \/ symbol = None))
                     => \E k \in 1..Len(raised) : raised[k] = i
           /\ alert_ret.value.triggered =
                 CheckLoop(WithoutRaising(data), 1, data, symbol, clock, NoResult).triggered
           /\ Len(alert_ret.value.triggered) + Len(raised) <= Len(alert_ret.value.evaluated)

\* the first alert raises and the one after it triggers
C10_Witness ==
    /\ IsCheck
    /\ Len(alerts) = 2
    /\ alert_ret.logged = <<1>>
    /\ Len(alert_ret.value.triggered) = 1
    /\ alert_ret.value.triggered[1].name = alerts[2].name
    /\ alert_history # <<>>

----------------------------------------------------------------------------
(* C11 *)

\* C11: the alert history is append-only: every call leaves the history it
\* found as a prefix of the history it leaves (so that the history at any
\* earlier point is a prefix of the history at any later point), only
\* check_alerts makes it longer, and remove_alert and deactivate_alert leave
\* it as it is, the entries of the alert removed or deactivated included.
C11_HistoryAppendOnly ==
    [][/\ Len(alert_history') >= Len(alert_history)
       /\ SubSeq(alert_history', 1, Len(alert_history)) = alert_history
       /\ alert_history' # alert_history => alert_ret'.op = "check_alerts"
       /\ alert_ret'.op \in {"remove_alert", "deactivate_alert"}
             => alert_history' = alert_history]_vars

\* entries of two check_alerts calls in the history, and the alert they name
\* removed from the registry since
C11_Witness ==
    /\ alert_ret.op = "remove_alert"
    /\ Len(alert_history) >= 2
    /\ alert_history[1].timestamp = 1
    /\ alert_history[Len(alert_history)].timestamp = 2
    /\ alert_history[1].name = alert_ret.arg
    /\ \A i \in 1..Len(alerts) : alerts[i].name # alert_ret.arg
----------------------------------------------------------------------------
(* C12 *)

\* positions of the registry whose alert is not named name, in registry order
Surviving(name) ==
    SelectSeq([i \in 1..Len(alerts) |-> i], LAMBDA i : alerts[i].name # name)

\* what identifies a registered alert, its flag apart
Registration(a) == <<a.name, a.condition_func, a.symbol>>

\* C12: remove_alert(name) leaves no alert named name in the registry,
\* duplicates included, and leaves every other alert in it, in the same
\* relative order and with the same flag; it changes nothing when no alert
\* has that name; and no other call takes an alert out of the registry.
C12_RemoveAllMatching ==
    [][/\ alert_ret'.op = "remove_alert"
            => /\ \A k \in 1..Len(alerts') : alerts'[k].name # alert_ret'.arg
               /\ Len(alerts') = Len(Surviving(alert_ret'.arg))
               /\ \A k \in 1..Len(alerts') : alerts'[k] = alerts[Surviving(alert_ret'.arg)[k]]
               /\ (\A i \in 1..Len(alerts) : alerts[i].name # alert_ret'.arg)
                     => alerts' = alerts
       /\ alert_ret'.op # "remove_alert"
            => /\ Len(alerts') >= Len(alerts)
               /\ \A i \in 1..Len(alerts) :
                     Registration(alerts'[i]) = Registration(alerts[i])]_vars

\* two alerts named "X" triggered in one check, and both gone after one
\* remove_alert("X")
C12_Witness ==
    /\ alert_ret.op = "remove_alert"
    /\ alert_ret.arg = "X"
    /\ alerts = <<>>
    /\ Len(alert_history) = 2
    /\ alert_history[1].name = "X" /\ alert_history[2].name = "X"
    /\ alert_history[1].timestamp = alert_history[2].timestamp

----------------------------------------------------------------------------
(* C13 *)

\* position j of the registry comes after an alert of the same name
Shadowed(j) == \E i \in 1..(j - 1) : alerts[i].name = alerts[j].name

\* C13: activate_alert(name) and deactivate_alert(name) set the flag of the
\* first alert named name and leave every other alert, later alerts of the
\* same name included, as it was; they change nothing when no alert has that
\* name.  Consequently an alert registered after another one of the same name
\* stays active whatever is deactivated, and check_alerts still evaluates it.
C13_FirstMatchOnly ==
    /\ [][alert_ret'.op \in {"activate_alert", "deactivate_alert"}
            => LET name == alert_ret'.arg
                   flag == (alert_ret'.op = "activate_alert")
                   matches == {i \in 1..Len(alerts) : alerts[i].name = name}
               IN /\ Len(alerts') = Len(alerts)
                  /\ matches = {} => alerts' = alerts
                  /\ \A i \in 1..Len(alerts) :
                        IF i \in matches /\ \A j \in matches : i <= j
                        THEN /\ alerts'[i].active = flag
                             /\ Registration(alerts'[i]) = Registration(alerts[i])
                        ELSE alerts'[i] = alerts[i]]_vars
    /\ [](\A j \in 1..Len(alerts) : Shadowed(j) => alerts[j].active)
    /\ [](IsCheck =>
            \A j \in 1..Len(alerts) :
                (/\ Shadowed(j)
                 /\ \/ alerts[j].symbol = None
                    \/ alert_ret.arg[2] = None
                    \/ alerts[j].symbol = alert_ret.arg[2])
                  => \E e \in 1..Len(alert_ret.value.evaluated) :
                        alert_ret.value.evaluated[e] = j)

\* two alerts named "X", the first one deactivated, and a check that
\* evaluates the second one only
C13_Witness ==
    /\ IsCheck
    /\ Len(alerts) = 2
    /\ alerts[1].name = "X" /\ alerts[2].name = "X"
    /\ ~alerts[1].active /\ alerts[2].active
    /\ alert_ret.value.evaluated = <<2>>
----------------------------------------------------------------------------
(* C16 *)

\* C16 as stated: a change the caller makes to the value returned by
\* get_active_alerts or get_alert_history, to the list or to an entry of it,
\* leaves the registry, the flags and the history as they were; and a later
\* activate_alert or deactivate_alert leaves the alerts of a list already
\* returned as they were.
C16_ReadOnlySnapshots ==
    [][/\ alert_ret'.op = "caller_write"
            => alerts' = alerts /\ alert_history' = alert_history
       /\ (/\ alert_ret.op = "get_active_alerts"
           /\ alert_ret'.op \in {"activate_alert", "deactivate_alert"})
            => \A k \in 1..Len(ActivePositions) :
                  alerts'[ActivePositions[k]] = alerts[ActivePositions[k]]]_vars
----------------------------------------------------------------------------
(* C17 *)

\* the elements at positions lo..hi of series are there, not missing, and
\* not all equal: their standard deviation is defined and not zero
Varies(series, lo, hi) ==
    /\ lo >= 1
    /\ hi - lo >= 1
    /\ \A k \in lo..hi : series[k] # NaN
    /\ \E j, k \in lo..hi : series[j] # series[k]

\* C17: calculate_zscore(series, window) returns normally an output of the
\* length of the input; its element at (0-based) index i is defined only if
\* i >= window - 1 and the trailing window ending at i has a non-zero standard
\* deviation; a window of equal values gives an undefined element, and an
\* input shorter than the window gives an output of undefined elements only.
C17_ZscoreDefinedness ==
    ret.op = "calculate_zscore" =>
        LET series == ret.arg[1]
            window == ret.arg[2]
        IN /\ ret.outcome = "ok"
           /\ Len(ret.value) = Len(series)
           /\ \A i \in 1..Len(series) :
                 /\ ret.value[i].defined
                      => /\ i - 1 >= window - 1
                         /\ Varies(series, i - window + 1, i)
                 /\ (i >= window /\ window >= 1
                       /\ \A k \in (i - window + 1)..i : series[k] = series[i])
                      => ~ret.value[i].defined
           /\ Len(series) < window => \A i \in 1..Len(series) : ~ret.value[i].defined

\* a series whose first full window is constant and whose next one is not
C17_Witness ==
    /\ ret.op = "calculate_zscore"
    /\ ret.arg = << <<2, 2, 4>>, 2 >>
    /\ ~ret.value[1].defined
    /\ ~ret.value[2].defined
    /\ ret.value[3].defined
----------------------------------------------------------------------------
(* C18 *)

\* the fraction f is num / den
FractionIs(f, num, den) == f.num * den = num * f.den

\* C18 as stated: calculate_hedge_ratio returns 0 when fewer than 2 aligned
\* points remain, 1 for two identical series that are not constant, 0 whenever
\* the second series has zero variance, and, when the regression raises,
\* Cov(A, B) / Var(B) with both under the same normalisation (the OLS slope).
C18_HedgeRatio ==
    ret.op = "calculate_hedge_ratio" =>
        LET df == Aligned(ret.arg)
            a == Column(df, 1)
            b == Column(df, 2)
        IN /\ ret.outcome = "ok"
           /\ Len(df) < 2 => FractionIs(ret.value, 0, 1)
           /\ (Len(df) >= 2 /\ a = b /\ VarNum(a) # 0) => FractionIs(ret.value, 1, 1)
           /\ (Len(df) >= 2 /\ VarNum(b) = 0) => FractionIs(ret.value, 0, 1)
           /\ (Len(df) >= 2 /\ VarNum(b) # 0 /\ "OLS" \in ret.logged)
                 => FractionIs(ret.value, CovNum(a, b), VarNum(b))
----------------------------------------------------------------------------
(* C19 *)

AnalyticsOps ==
    {"calculate_price_statistics", "calculate_hedge_ratio", "calculate_spread",
     "calculate_zscore", "calculate_correlation", "perform_adf_test"}

\* the number of elements of series that are not missing
Present(series) == Cardinality({i \in 1..Len(series) : series[i] # NaN})

\* the number of positions at which neither series has a missing value
PresentPairs(pairs) ==
    Cardinality({i \in 1..Len(pairs) : pairs[i][1] # NaN /\ pairs[i][2] # NaN})

\* C19: every analytics operation returns normally on an empty or too short
\* input: calculate_price_statistics gives an empty result on an empty frame,
\* calculate_spread an empty series when no aligned point is there,
\* calculate_correlation and calculate_zscore an output of undefined elements
\* when the input is shorter than the window, and perform_adf_test the
\* insufficient-data error on fewer than the least number of present points,
\* and an error result whenever the test routine raises.
C19_NoRaiseOnShortInput ==
    /\ ret.op \in AnalyticsOps => ret.outcome = "ok"
    /\ (ret.op = "calculate_price_statistics" /\ Present(ret.arg.price) = 0)
          => ret.value.count = 0
    /\ (ret.op = "calculate_spread" /\ PresentPairs(ret.arg[1]) = 0)
          => ret.value = <<>>
    /\ (ret.op = "calculate_correlation" /\ PresentPairs(ret.arg[1]) < ret.arg[2])
          => /\ Len(ret.value) = PresentPairs(ret.arg[1])
             /\ \A i \in 1..Len(ret.value) : ~ret.value[i].defined
    /\ (ret.op = "calculate_zscore" /\ Len(ret.arg[1]) < ret.arg[2])
          => /\ Len(ret.value) = Len(ret.arg[1])
             /\ \A i \in 1..Len(ret.value) : ~ret.value[i].defined
    /\ ret.op = "perform_adf_test"
          => /\ Present(ret.arg) < ADF_MIN_POINTS
                  => ret.value.error = "Insufficient data for ADF test"
             /\ "adfuller" \in ret.logged => ret.value.error = "ADF test failed"

\* a series long enough whose present points are too few
C19_Witness ==
    /\ ret.op = "perform_adf_test"
    /\ Len(ret.arg) >= ADF_MIN_POINTS
    /\ Present(ret.arg) < ADF_MIN_POINTS
    /\ Present(ret.arg) > 0
    /\ ret.value.error = "Insufficient data for ADF test"
----------------------------------------------------------------------------
(* C20 *)

\* the (timestamp, symbol) pairs of the bars of df
BarKeys(df) == {<<df[i].timestamp, df[i].symbol>> : i \in 1..Len(df)}

\* the bars of df for the pair key
BarsAt(df, key) == {df[i] : i \in {k \in 1..Len(df) : <<df[k].timestamp, df[k].symbol>> = key}}

\* at most one bar for each (timestamp, symbol) in every stored series
OneBarPerKey ==
    \A tf \in TimeframeKeys :
        \A i, j \in 1..Len(resampled_data[tf]) :
            (i # j) => <<resampled_data[tf][i].timestamp, resampled_data[tf][i].symbol>>
                          # <<resampled_data[tf][j].timestamp, resampled_data[tf][j].symbol>>

\* C20 as stated: every stored series holds at most one bar for each
\* (timestamp, symbol); after a pass the stored bar of a (timestamp, symbol)
\* that was stored and is recomputed is the newly computed one, and every
\* stored bar that the pass does not recompute is still stored, unchanged.
C20_LastWriteWinsKeepsOthers ==
    /\ []OneBarPerKey
    /\ [][IsResamplePass' =>
            \A tf \in TimeframeKeys :
                /\ \A key \in BarKeys(ret'.value[tf]) \cap BarKeys(resampled_data[tf]) :
                      BarsAt(resampled_data'[tf], key) = BarsAt(ret'.value[tf], key)
                /\ \A key \in BarKeys(resampled_data[tf]) \ BarKeys(ret'.value[tf]) :
                      BarsAt(resampled_data'[tf], key) = BarsAt(resampled_data[tf], key)]_vars

\* C20 amended: every stored series holds at most one bar for each
\* (timestamp, symbol); after a pass every stored bar is either a bar the
\* pass computed or a bar stored before it that the pass did not recompute,
\* unchanged (last write wins); bars leave the series only by the retention
\* trim of the pass: when the merged series is within the retention cap,
\* every computed bar and every bar not recomputed is stored.
C20_LastWriteWins ==
    /\ []OneBarPerKey
    /\ [][IsResamplePass' =>
            \A tf \in TimeframeKeys :
                LET new == BarKeys(ret'.value[tf])
                    old == BarKeys(resampled_data[tf])
                IN /\ \A key \in BarKeys(resampled_data'[tf]) :
                         /\ key \in new
                              => BarsAt(resampled_data'[tf], key) = BarsAt(ret'.value[tf], key)
                         /\ key \notin new
                              => /\ key \in old
                                 /\ BarsAt(resampled_data'[tf], key)
                                       = BarsAt(resampled_data[tf], key)
                   /\ Cardinality(new \cup old) <= BAR_HIGH_WATER
                         => BarKeys(resampled_data'[tf]) = new \cup old]_vars

\* a pass over a buffer that holds no tick of ETHUSDT any more: the bar of
\* ETHUSDT stored by an earlier pass is kept beside the bar just computed
C20_Witness ==
    /\ IsResamplePass
    /\ RowsOfSymbol(tick_data, "ETHUSDT") = <<>>
    /\ RowsOfSymbol(resampled_data["5min"], "ETHUSDT") # <<>>
    /\ \E i \in 1..Len(resampled_data["5min"]) :
          /\ resampled_data["5min"][i].symbol = "BTCUSDT"
          /\ resampled_data["5min"][i] \in RowSet(ret.value["5min"])
----------------------------------------------------------------------------
(* C14 *)

\* C14 as stated: no thread is at a write to the durable sink while it holds
\* the store lock, in add_tick or in resample_data.
C14_NoIOUnderLock ==
    \A t \in Threads : pc[t] \in {"add_sink", "rs_sink"} => lock # t

----------------------------------------------------------------------------
(* C15 *)

ReadOps == {"get_latest_ticks", "get_resampled_data"}

\* the number of positions of the raw buffer that hold tick
Copies(tick) == Cardinality({i \in 1..Len(tick_data) : tick_data[i] = tick})

\* C15: the calls of the threads are atomic.  At most one thread is inside a
\* call's locked part; whenever the lock is free the raw buffer and the bar
\* series are those of the calls run one after another in the order in which
\* they took the lock; below the eviction threshold every ingested tick is in
\* the buffer exactly once; a reader returns what that sequential run holds
\* at its turn, and no resample pass is under way while it reads.
C15_CallsAreAtomic ==
    /\ \A t, u \in Threads :
          (t # u /\ pc[t] \notin {"idle", "raise"}) => pc[u] \in {"idle", "raise"}
    /\ lock = "free"
          => /\ tick_data = serial.tick_data
             /\ resampled_data = serial.resampled_data
             /\ Len(log) <= TICK_HIGH_WATER
                   => /\ Len(tick_data) = Len(log)
                      /\ \A i \in 1..Len(log) : Copies(log[i]) = 1
    /\ \A t \in Threads :
          frame[t].op \in ReadOps /\ pc[t] \in {"gl_read", "gr_read", "unlock"}
             => /\ pc[t] = "unlock" => frame[t].value = frame[t].expect
                /\ \A u \in Threads \ {t} : frame[u].op # "resample_data"

\* the dashboard about to return bars of both symbols, ingested by the two
\* ingestion threads
C15_Witness ==
    /\ pc["dashboard"] = "unlock"
    /\ frame["dashboard"].op = "get_resampled_data"
    /\ frame["dashboard"].arg[2] = None
    /\ \E i, j \in 1..Len(frame["dashboard"].value) :
          /\ frame["dashboard"].value[i].symbol = "BTCUSDT"
          /\ frame["dashboard"].value[j].symbol = "ETHUSDT"
    /\ Len(log) = 2
----------------------------------------------------------------------------
(* C21 *)

\* the merged series of timeframe tf in the pass of a step, as a set: the
\* bars stored before that the pass does not recompute, and the bars it
\* computes
MergedBars(stored, computed) ==
    {b \in RowSet(stored) : <<b.timestamp, b.symbol>> \notin BarKeys(computed)}
        \cup RowSet(computed)

\* C21 as stated: every stored series holds at most the retention cap of bars
\* after every pass, and when the merged series of a pass exceeds the cap the
\* bars retained are the low-water mark of most recent ones: no bar retained
\* is older than a bar discarded, for all symbols together.
C21_TrimKeepsMostRecent ==
    /\ [](\A tf \in TimeframeKeys : Len(resampled_data[tf]) <= BAR_HIGH_WATER)
    /\ [][IsResamplePass' =>
            \A tf \in TimeframeKeys :
                LET merged == MergedBars(resampled_data[tf], ret'.value[tf])
                    kept == RowSet(resampled_data'[tf])
                IN Cardinality(merged) > BAR_HIGH_WATER
                      => /\ Len(resampled_data'[tf]) = BAR_LOW_WATER
                         /\ \A r \in kept, d \in merged \ kept :
                               r.timestamp >= d.timestamp]_vars
----------------------------------------------------------------------------
(* C23 *)

\* the operations of the store that take the store lock
LockingOps ==
    {"add_tick", "resample_data", "get_latest_ticks", "get_resampled_data", "save_to_csv"}

\* C23 as stated: every operation of the store that takes the lock releases
\* it and returns, save_to_csv with a timeframe included: after any call the
\* caller is not left waiting for the lock and the lock is free, so the calls
\* made afterwards can take it.
C23_LockReleasedAfterEveryCall ==
    ret.op \in LockingOps => /\ ret.outcome # "blocked"
                             /\ lock = "free"
----------------------------------------------------------------------------
(* C22 *)

\* C22: a failure in one timeframe of a pass (aggregation, merge, trim or
\* sink write) is caught: every timeframe that did not fail ends with the
\* stored series of a pass without failures, whether the failing timeframe
\* comes before or after it, and the call returns normally with the lock released and the
\* resample times set.
C22_FailureIsContained ==
    [][IsResamplePass' =>
          /\ ret'.outcome = "ok"
          /\ lock' = "free"
          /\ \A tf \in TimeframeKeys : last_resample'[tf]
          /\ \A tf \in TimeframeKeys \ ret'.logged :
                resampled_data'[tf] =
                    UpdateStored(resampled_data[tf], ret'.value[tf])]_vars

\* the first timeframe of a pass failed before anything was stored for it and
\* the later ones were stored
C22_Witness ==
    /\ IsResamplePass
    /\ ret.logged = {Timeframes[1]}
    /\ resampled_data[Timeframes[1]] = <<>>
    /\ \A i \in 2..Len(Timeframes) : resampled_data[Timeframes[i]] # <<>>
====
